---- MODULE Spec2Model ----
(***************************************************************************)
(* Model of magellan/sampler/down_sample.py (down_sample, _inv_index,      *)
(* _probe_index, _get_stop_words, _get_str_cols_list) together with the    *)
(* catalog functions it calls (magellan/catalog/catalog_manager.py:        *)
(* copy_properties, set_properties).                                       *)
(*                                                                         *)
(* One behaviour is one call down_sample(table_a, table_b, size, y_param). *)
(* A table is a record [is_df, rows, index]; a row is the sequence of the  *)
(* whitespace-separated words of the row's string columns, in column       *)
(* order (the empty sequence for a row without string columns); index is   *)
(* the sequence of the row labels (0, 1, ... for the default index).       *)
(*                                                                         *)
(* Spec is the whole call and SpecFair the call under a fair random        *)
(* source; SpecProbe is one probe of _probe_index on a larger table_a;     *)
(* SpecCatalog is the catalog manager called directly by a client;         *)
(* SpecTwo is two invocations interleaved over the same tables. The        *)
(* interpreter (Python 2 or 3) is an input of every specification.         *)
(***************************************************************************)
EXTENDS Integers, Sequences, FiniteSets, TLC

VARIABLES
    table_a, table_b, size, y_param,   \* the arguments of down_sample
    catalog,                           \* Catalog.Instance(): df id -> property dict
    pc, err,                           \* position in down_sample, exception raised
    warned,                            \* logger.warning of line 191 was emitted
    stop_loads,                        \* number of calls of _get_stop_words
    index_builds,                      \* number of calls of _inv_index
    inv_index, pos,                    \* locals of _inv_index
    s_inv_index,                       \* down_sample's index (line 195)
    b_tbl_indices,                     \* line 199
    probe_rows, row_i,                 \* table_b.ix[b_tbl_indices] and the row iterated
    h_table,                           \* accumulator of _probe_index
    match, k, smpl_pos_neg,            \* locals of the loop body of _probe_index
    p_part,                            \* smpl_pos_neg when the loop of line 131 exits
    s_tbl_indices, l_sampled, r_sampled,
    result,                            \* the returned pair, <<>> while nothing is returned
    cm_call,                           \* the last direct call of the catalog manager: its
                                       \* arguments, the catalog before it and its outcome
    py3,                               \* the interpreter is Python 3 (str is unicode text and
                                       \* a file opened "rb" yields bytes), else Python 2
    cur,                               \* the invocation that is running (1 or 2): the
                                       \* variables above, the arguments and locals, are its frame
    other                              \* the frame of the other invocation, if there is one

vars == <<table_a, table_b, size, y_param, catalog, pc, err, warned, stop_loads,
          index_builds, inv_index, pos, s_inv_index, b_tbl_indices, probe_rows,
          row_i, h_table, match, k, smpl_pos_neg, p_part, s_tbl_indices,
          l_sampled, r_sampled, result, cm_call, py3, cur, other>>

-----------------------------------------------------------------------------
(* Bounds of the model *)

\* the whole call (Spec)
MaxLenA == 2
MaxLenB == 2
MaxSize == 2
MaxY == 2

\* one probe of _probe_index (SpecProbe)
PMaxLenA == 4
PMaxY == 3

-----------------------------------------------------------------------------
(* Values *)

\* Rows of table A: one token (upper case in the data) and a stop word; two tokens.
RowsA == { <<"Kw0", "the">>, <<"kw0", "kw1">> }

\* Rows of table B: a stop word and a token no row of A has; a token of some rows of A.
RowsB == { <<"kw2", "the">>, <<"Kw1">> }

\* Rows of table A for a single probe: also a row with only a stop word.
PRowsA == RowsA \cup { <<"the">> }

\* Rows probed singly: also no string column, only a stop word, two tokens of A.
PRowsB == RowsB \cup { <<>>, <<"the">>, <<"Kw1", "kw0">> }

SeqsUpTo(S, n) == UNION { [1..m -> S] : m \in 0..n }

\* a DataFrame with the given rows and row labels
DataFrameIx(rows, index) == [is_df |-> TRUE, rows |-> rows, index |-> index]

\* the default index of a table of n rows: the labels are the positions
RangeIndex(n) == [i \in 1..n |-> i - 1]

\* an integer index whose labels are the positions in reverse (a table sorted or
\* shuffled without reset_index)
ReversedIndex(n) == [i \in 1..n |-> n - i]

\* a DataFrame with the default index
DataFrame(rows) == DataFrameIx(rows, RangeIndex(Len(rows)))

\* An argument that is not a pandas DataFrame (None, a list, ...)
NotDataFrame == [is_df |-> FALSE, rows |-> <<>>, index |-> <<>>]

TablesA == { DataFrame(r) : r \in SeqsUpTo(RowsA, MaxLenA) } \cup { NotDataFrame }
TablesB ==
    UNION { { DataFrameIx(r, RangeIndex(Len(r))), DataFrameIx(r, ReversedIndex(Len(r))) } :
            r \in SeqsUpTo(RowsB, MaxLenB) }
    \cup { NotDataFrame }

len(table) == Len(table.rows)

Min(a, b) == IF a <= b THEN a ELSE b

\* math.floor(x / 2)
FloorHalf(x) == x \div 2

\* range(n)
Range(n) == 0 .. (n - 1)

\* str.lower() on the words of the model
Lower(w) == CASE w = "Kw0" -> "kw0"
              [] w = "Kw1" -> "kw1"
              [] OTHER -> w

\* The lines of utils/stop_words.txt, line ends included.
StopWordsFile == << "the\n", "a\n", "the\n" >>

\* bytes.rstrip() on a line of the stop word file
RStrip(line) == CASE line = "the\n" -> "the"
                  [] line = "a\n" -> "a"
                  [] OTHER -> line

\* the words the stop word file lists
StopWordList == { RStrip(StopWordsFile[i]) : i \in DOMAIN StopWordsFile }

\* the bytes object b'...' of a word: under Python 3 it equals no str
BytesOf(w) == CASE w = "the" -> "b'the'"
                [] w = "a" -> "b'a'"
                [] OTHER -> "b'?'"

\* _get_stop_words: the set of the stripped lines of the file, which is opened "rb"
\* (line 24): the lines are str under Python 2 and bytes under Python 3
GetStopWords == IF py3 THEN { BytesOf(w) : w \in StopWordList } ELSE StopWordList

\* set(str_val.split()) of the lower-cased concatenation of the string columns
SplitLower(row) == { Lower(row[i]) : i \in DOMAIN row }

\* lines 67-74 and 108-117: the token set of a row
Tokenize(row, stop_words) == SplitLower(row) \ stop_words

EmptyIndex == [t \in {} |-> <<>>]

\* the position put at the head of the posting list rather than appended
AddPostingsPrepend(index, tokens, p) ==
    [t \in (DOMAIN index) \cup tokens |->
        IF t \in tokens
        THEN IF t \in DOMAIN index THEN <<p>> \o index[t] ELSE <<p>>
        ELSE index[t]]

\* lines 77-82: append pos to the posting list of every token of the row
AddPostings(index, tokens, p) ==
    [t \in (DOMAIN index) \cup tokens |->
        IF t \in tokens
        THEN IF t \in DOMAIN index THEN Append(index[t], p) ELSE <<p>>
        ELSE index[t]]

\* a missing token answered with the first row rather than None
IndexGetDefaultRow(index, token) == IF token \in DOMAIN index THEN index[token] ELSE <<0>>

\* _inv_index(table): the index after the scan of all rows, position 0 first
RECURSIVE InvIndexUpTo(_, _)
InvIndexUpTo(table, n) ==
    IF n = 0 THEN EmptyIndex
    ELSE AddPostings(InvIndexUpTo(table, n - 1),
                     Tokenize(table.rows[n], GetStopWords), n - 1)

InvIndexOf(table) == InvIndexUpTo(table, len(table))

\* s_inv_index.get(token, None)
IndexGet(index, token) == IF token \in DOMAIN index THEN index[token] ELSE <<>>

SeqElems(s) == { s[i] : i \in DOMAIN s }

\* lines 120-124: the union of the posting lists of the tokens
MatchOf(tokens, index) == UNION { SeqElems(IndexGet(index, t)) : t \in tokens }

\* one less than the matched budget
PickCountLess(y_pos, m) == Min(y_pos, Cardinality(m)) - 1

\* line 127
PickCount(y_pos, m) == Min(y_pos, Cardinality(m))

\* a choice that always takes the smallest position
RandomChoiceFirst(m) == IF m = {} THEN {} ELSE { CHOOSE x \in m : \A z \in m : x <= z }

\* random.choice(match): any element of the list
RandomChoice(m) == m

\* randint(0, s_tbl_sz): one past the last position
RandIntPastEnd(lo, hi) == lo .. (hi + 1)

\* randint(0, s_tbl_sz - 1): both ends included
RandInt(lo, hi) == lo .. hi

\* the matched draw stops one short
MatchLoopCondShort(s, kk) == Cardinality(s) + 1 < kk

\* line 131: the loop condition of the matched draw
MatchLoopCond(s, kk) == Cardinality(s) < kk

\* the random fill draws one more (<= for <)
FillLoopCondOver(s, y) == Cardinality(s) <= y

\* a loop that exits one position early
FillLoopCondShort(s, y) == Cardinality(s) + 1 < y

\* line 137: the loop condition of the random fill
FillLoopCond(s, y) == Cardinality(s) < y

\* the accumulator replaced by the selection of the last probe
UpdateReplace(h, s) == s

\* line 140: h_table.update(smpl_pos_neg)
Update(h, s) == h \cup s

\* line 198
BSampleSize(sz, table) == Min(sz, len(table))

IsInjective(s) == \A i, j \in DOMAIN s : s[i] = s[j] => i = j

\* a draw with replacement (replace=True)
ChoiceWithReplace(n, m) == [1..m -> Range(n)]

\* pd.np.random.choice(n, m, replace=False): m distinct values of range(n) in any order
ChoiceNoReplace(n, m) == { s \in [1..m -> Range(n)] : IsInjective(s) }

\* table.iloc[list]: the rows at the given positions, in the order given, with
\* their labels
ILoc(table, positions) ==
    DataFrameIx([i \in DOMAIN positions |-> table.rows[positions[i] + 1]],
                [i \in DOMAIN positions |-> table.index[positions[i] + 1]])

\* the position of the row labelled l
PosOfLabel(table, l) == CHOOSE p \in DOMAIN table.index : table.index[p] = l

\* table.ix[list] on a table with an integer index: the list is read as labels,
\* the rows that carry them are returned in the order given
Ix(table, labels) ==
    DataFrameIx([i \in DOMAIN labels |-> table.rows[PosOfLabel(table, labels[i])]],
                [i \in DOMAIN labels |-> labels[i]])

\* list(set) of a set of small non-negative ints: CPython stores i in slot i, so
\* the list is in increasing order
RECURSIVE ListOf(_)
ListOf(S) ==
    IF S = {} THEN <<>>
    ELSE LET m == CHOOSE x \in S : \A z \in S : z <= x
         IN  Append(ListOf(S \ {m}), m)

\* lines 131-133 run to the end: the sets the matched draw can leave in smpl_pos_neg
RECURSIVE MatchDrawOutcomes(_, _, _)
MatchDrawOutcomes(s, m, kk) ==
    IF ~MatchLoopCond(s, kk) THEN {s}
    ELSE UNION { MatchDrawOutcomes(s \cup {num}, m, kk) : num \in RandomChoice(m) \ s }

\* lines 137-139 run to the end: the sets the random fill can leave in smpl_pos_neg
RECURSIVE FillOutcomes(_, _, _)
FillOutcomes(s, y, n) ==
    IF ~FillLoopCond(s, y) THEN {s}
    ELSE UNION { FillOutcomes(s \cup {r}, y, n) : r \in RandInt(0, n - 1) \ s }

\* lines 119-139: the selections one probe with these tokens can end with
LocalSelections(tokens, index, y, n) ==
    LET m == MatchOf(tokens, index)
        kk == PickCount(FloorHalf(y), m)
    IN  UNION { FillOutcomes(p, y, n) : p \in MatchDrawOutcomes({}, m, kk) }

-----------------------------------------------------------------------------
(* The catalog: a function from the ids of the DataFrames that have an     *)
(* entry to their property dictionaries.                                   *)

PropDict == [k0 \in {"key"} |-> "ID"]

NoProps == [k0 \in {} |-> "ID"]

\* catalog.is_df_info_present_in_catalog(df)
IsDfInfoPresent(cat, df) == df \in DOMAIN cat

\* catalog.init_properties(df)
InitProperties(cat, df) == [d \in (DOMAIN cat) \cup {df} |-> IF d = df THEN NoProps ELSE cat[d]]

\* a loop that sets only the keys the entry does not have yet
SetAllKeepExisting(cat, df, prop_dict) ==
    [d \in DOMAIN cat |->
        IF d = df
        THEN [p \in (DOMAIN cat[d]) \cup (DOMAIN prop_dict) |->
                 IF p \in DOMAIN cat[d] THEN cat[d][p] ELSE prop_dict[p]]
        ELSE cat[d]]

\* the loop of lines 423-424: catalog.set_property(df, k, v) for every item
SetAll(cat, df, prop_dict) ==
    [d \in DOMAIN cat |->
        IF d = df
        THEN [p \in (DOMAIN cat[d]) \cup (DOMAIN prop_dict) |->
                 IF p \in DOMAIN prop_dict THEN prop_dict[p] ELSE cat[d][p]]
        ELSE cat[d]]

\* set_properties without the test of line 413
set_properties_always(cat, df, prop_dict, replace) ==
    LET c1 == IF ~IsDfInfoPresent(cat, df) THEN InitProperties(cat, df) ELSE cat
    IN  [ret |-> TRUE, raised |-> "", cat |-> SetAll(c1, df, prop_dict)]

\* set_properties(df, prop_dict, replace): the value returned and the catalog after
set_properties(cat, df, prop_dict, replace) ==
    IF IsDfInfoPresent(cat, df) /\ replace = FALSE
    THEN [ret |-> FALSE, raised |-> "", cat |-> cat]
    ELSE LET c1 == IF ~IsDfInfoPresent(cat, df) THEN InitProperties(cat, df) ELSE cat
         IN  [ret |-> TRUE, raised |-> "", cat |-> SetAll(c1, df, prop_dict)]

\* lines 476-480: the source must have an entry
SrcMissing(cat, src) == IsDfInfoPresent(cat, src) = FALSE

\* copy_properties(src, tar, update)
copy_properties(cat, src, tar, update) ==
    IF SrcMissing(cat, src)
    THEN [ret |-> FALSE, raised |-> "KeyError", cat |-> cat]
    ELSE set_properties(cat, tar, cat[src], update)

Catalogs == UNION { [S -> {PropDict}] : S \in SUBSET {"A", "B"} }

\* no call of the catalog manager has been made
NoCall == [fn |-> "", src |-> "", df |-> "", props |-> NoProps, flag |-> FALSE,
           before |-> [d \in {} |-> NoProps], ret |-> FALSE, raised |-> ""]

-----------------------------------------------------------------------------
(* Initial state: the call is entered with some arguments and catalog.     *)

NoTable == DataFrame(<<>>)

\* the frame of down_sample(table_a, table_b, sz, y) on entry: arguments and locals
EntryFrame(sz, y) ==
    [size |-> sz, y_param |-> y, pc |-> "validate", err |-> "", warned |-> FALSE,
     stop_loads |-> 0, index_builds |-> 0, inv_index |-> EmptyIndex, pos |-> 0,
     s_inv_index |-> EmptyIndex, b_tbl_indices |-> <<>>, probe_rows |-> NoTable,
     row_i |-> 0, h_table |-> {}, match |-> {}, k |-> 0, smpl_pos_neg |-> {},
     p_part |-> {}, s_tbl_indices |-> <<>>, l_sampled |-> NoTable,
     r_sampled |-> NoTable, result |-> <<>>]

\* there is no other invocation
NoFrame == EntryFrame(0, 0)

\* the catalog ids of the tables an invocation creates (lines 205-206): new DataFrame
\* objects, so each invocation has its own
OutA(i) == IF i = 1 THEN "A'" ELSE "A'2"

OutB(i) == IF i = 1 THEN "B'" ELSE "B'2"

Init ==
    /\ table_a \in TablesA
    /\ table_b \in TablesB
    /\ size \in (-1) .. MaxSize
    /\ y_param \in (-1) .. MaxY
    /\ catalog \in Catalogs
    /\ pc = "validate"
    /\ cm_call = NoCall
    /\ py3 \in BOOLEAN
    /\ cur = 1
    /\ other = NoFrame
    /\ err = ""
    /\ warned = FALSE
    /\ stop_loads = 0
    /\ index_builds = 0
    /\ inv_index = EmptyIndex
    /\ pos = 0
    /\ s_inv_index = EmptyIndex
    /\ b_tbl_indices = <<>>
    /\ probe_rows = NoTable
    /\ row_i = 0
    /\ h_table = {}
    /\ match = {}
    /\ k = 0
    /\ smpl_pos_neg = {}
    /\ p_part = {}
    /\ s_tbl_indices = <<>>
    /\ l_sampled = NoTable
    /\ r_sampled = NoTable
    /\ result = <<>>

-----------------------------------------------------------------------------
(* down_sample *)

\* raise: the call ends with the exception, nothing is returned
Raise(e) == pc' = "failed" /\ err' = e

\* lines 174-180
NotTables(a, b) == ~a.is_df \/ ~b.is_df

\* only table_b is checked for emptiness
EmptyInputOnlyB(a, b) == len(b) = 0

\* line 182
EmptyInput(a, b) == len(a) = 0 \/ len(b) = 0

\* line 186
BadParams(sz, y) == sz = 0 \/ y = 0

\* line 190
Oversized(b, sz) == len(b) < sz

\* lines 174-191: the checks on the arguments and the warning
Validate ==
    /\ pc = "validate"
    /\ UNCHANGED <<cm_call, py3, cur, other>>
    /\ IF NotTables(table_a, table_b) \/ EmptyInput(table_a, table_b)
          \/ BadParams(size, y_param)
       THEN Raise("AssertionError") /\ UNCHANGED warned
       ELSE /\ warned' = Oversized(table_b, size)
            /\ pc' = "inv_index"
            /\ UNCHANGED err
    /\ UNCHANGED <<table_a, table_b, size, y_param, catalog, stop_loads, index_builds,
                   inv_index, pos, s_inv_index, b_tbl_indices, probe_rows, row_i,
                   h_table, match, k, smpl_pos_neg, p_part, s_tbl_indices, l_sampled,
                   r_sampled, result>>

\* lines 195, 54-60: _inv_index(table_a) is entered; the stop words are loaded,
\* then _get_str_cols_list raises on a table without rows (lines 33-35)
InvIndexBegin ==
    /\ pc = "inv_index"
    /\ UNCHANGED <<cm_call, py3, cur, other>>
    /\ index_builds' = index_builds + 1
    /\ stop_loads' = stop_loads + 1
    /\ inv_index' = EmptyIndex
    /\ pos' = 0
    /\ IF len(table_a) = 0
       THEN Raise("AssertionError")
       ELSE pc' = "inv_scan" /\ UNCHANGED err
    /\ UNCHANGED <<table_a, table_b, size, y_param, catalog, warned, s_inv_index,
                   b_tbl_indices, probe_rows, row_i, h_table, match, k, smpl_pos_neg,
                   p_part, s_tbl_indices, l_sampled, r_sampled, result>>

\* lines 66-83: one row of table_a
InvIndexRow ==
    /\ pc = "inv_scan"
    /\ UNCHANGED <<cm_call, py3, cur, other>>
    /\ pos < len(table_a)
    /\ inv_index' = AddPostings(inv_index, Tokenize(table_a.rows[pos + 1], GetStopWords), pos)
    /\ pos' = pos + 1
    /\ UNCHANGED <<table_a, table_b, size, y_param, catalog, pc, err, warned, stop_loads,
                   index_builds, s_inv_index, b_tbl_indices, probe_rows, row_i, h_table,
                   match, k, smpl_pos_neg, p_part, s_tbl_indices, l_sampled, r_sampled,
                   result>>

\* the builder returning whatever it has, the scan finished or not
InvIndexReturnEarly ==
    /\ pc = "inv_scan"
    /\ s_inv_index' = inv_index
    /\ pc' = "draw_b"
    /\ UNCHANGED <<table_a, table_b, size, y_param, catalog, err, warned, stop_loads,
                   index_builds, inv_index, pos, b_tbl_indices, probe_rows, row_i,
                   h_table, match, k, smpl_pos_neg, p_part, s_tbl_indices, l_sampled,
                   r_sampled, result, cm_call, py3, cur, other>>

\* lines 84, 195: the index is returned to down_sample
InvIndexReturn ==
    /\ pc = "inv_scan"
    /\ UNCHANGED <<cm_call, py3, cur, other>>
    /\ pos >= len(table_a)
    /\ s_inv_index' = inv_index
    /\ pc' = "draw_b"
    /\ UNCHANGED <<table_a, table_b, size, y_param, catalog, err, warned, stop_loads,
                   index_builds, inv_index, pos, b_tbl_indices, probe_rows, row_i,
                   h_table, match, k, smpl_pos_neg, p_part, s_tbl_indices, l_sampled,
                   r_sampled, result>>

\* lines 198-199: the positions of B'; numpy raises ValueError on a negative count
DrawB ==
    /\ pc = "draw_b"
    /\ UNCHANGED <<cm_call, py3, cur, other>>
    /\ IF BSampleSize(size, table_b) < 0
       THEN Raise("ValueError") /\ UNCHANGED b_tbl_indices
       ELSE /\ b_tbl_indices' \in ChoiceNoReplace(len(table_b), BSampleSize(size, table_b))
            /\ pc' = "probe_begin"
            /\ UNCHANGED err
    /\ UNCHANGED <<table_a, table_b, size, y_param, catalog, warned, stop_loads,
                   index_builds, inv_index, pos, s_inv_index, probe_rows, row_i, h_table,
                   match, k, smpl_pos_neg, p_part, s_tbl_indices, l_sampled, r_sampled,
                   result>>

\* lines 202, 94-100: _probe_index(table_b.ix[b_tbl_indices], ...) is entered;
\* _get_str_cols_list raises on a table without rows
ProbeBegin ==
    /\ pc = "probe_begin"
    /\ UNCHANGED <<cm_call, py3, cur, other>>
    /\ probe_rows' = Ix(table_b, b_tbl_indices)
    /\ h_table' = {}
    /\ stop_loads' = stop_loads + 1
    /\ row_i' = 1
    /\ IF Len(b_tbl_indices) = 0
       THEN Raise("AssertionError")
       ELSE pc' = "probe_row" /\ UNCHANGED err
    /\ UNCHANGED <<table_a, table_b, size, y_param, catalog, warned, index_builds,
                   inv_index, pos, s_inv_index, b_tbl_indices, match, k, smpl_pos_neg,
                   p_part, s_tbl_indices, l_sampled, r_sampled, result>>

\* a lookup that enters every token it misses into the index with an empty list
\* (setdefault instead of get)
ProbeRowSetDefault ==
    /\ pc = "probe_row"
    /\ row_i <= len(probe_rows)
    /\ LET tokens == Tokenize(probe_rows.rows[row_i], GetStopWords)
           m == MatchOf(tokens, s_inv_index)
       IN  /\ match' = m
           /\ k' = PickCount(FloorHalf(y_param), m)
           /\ s_inv_index' = [t \in (DOMAIN s_inv_index) \cup tokens |->
                                 IndexGet(s_inv_index, t)]
    /\ smpl_pos_neg' = {}
    /\ p_part' = {}
    /\ pc' = "match_loop"
    /\ UNCHANGED <<table_a, table_b, size, y_param, catalog, err, warned, stop_loads,
                   index_builds, inv_index, pos, b_tbl_indices, probe_rows,
                   row_i, h_table, s_tbl_indices, l_sampled, r_sampled, result, cm_call, py3, cur, other>>

\* lines 106-129: the next row of B' is tokenized and probed into the index
ProbeRow ==
    /\ pc = "probe_row"
    /\ UNCHANGED <<cm_call, py3, cur, other>>
    /\ row_i <= len(probe_rows)
    /\ LET tokens == Tokenize(probe_rows.rows[row_i], GetStopWords)
           m == MatchOf(tokens, s_inv_index)
       IN  /\ match' = m
           /\ k' = PickCount(FloorHalf(y_param), m)
    /\ smpl_pos_neg' = {}
    /\ p_part' = {}
    /\ pc' = "match_loop"
    /\ UNCHANGED <<table_a, table_b, size, y_param, catalog, err, warned, stop_loads,
                   index_builds, inv_index, pos, s_inv_index, b_tbl_indices, probe_rows,
                   row_i, h_table, s_tbl_indices, l_sampled, r_sampled, result>>

\* lines 131-133: one iteration of the matched draw
MatchDraw ==
    /\ pc = "match_loop"
    /\ UNCHANGED <<cm_call, py3, cur, other>>
    /\ MatchLoopCond(smpl_pos_neg, k)
    /\ \E num \in RandomChoice(match) : smpl_pos_neg' = smpl_pos_neg \cup {num}
    /\ UNCHANGED <<table_a, table_b, size, y_param, catalog, pc, err, warned, stop_loads,
                   index_builds, inv_index, pos, s_inv_index, b_tbl_indices, probe_rows,
                   row_i, h_table, match, k, p_part, s_tbl_indices, l_sampled, r_sampled,
                   result>>

\* line 131: the matched draw is over
MatchDone ==
    /\ pc = "match_loop"
    /\ UNCHANGED <<cm_call, py3, cur, other>>
    /\ ~MatchLoopCond(smpl_pos_neg, k)
    /\ p_part' = smpl_pos_neg
    /\ pc' = "fill_loop"
    /\ UNCHANGED <<table_a, table_b, size, y_param, catalog, err, warned, stop_loads,
                   index_builds, inv_index, pos, s_inv_index, b_tbl_indices, probe_rows,
                   row_i, h_table, match, k, smpl_pos_neg, s_tbl_indices, l_sampled,
                   r_sampled, result>>

\* lines 137-139: one iteration of the random fill
FillDraw ==
    /\ pc = "fill_loop"
    /\ UNCHANGED <<cm_call, py3, cur, other>>
    /\ FillLoopCond(smpl_pos_neg, y_param)
    /\ \E rand_item_num \in RandInt(0, len(table_a) - 1) :
           smpl_pos_neg' = smpl_pos_neg \cup {rand_item_num}
    /\ UNCHANGED <<table_a, table_b, size, y_param, catalog, pc, err, warned, stop_loads,
                   index_builds, inv_index, pos, s_inv_index, b_tbl_indices, probe_rows,
                   row_i, h_table, match, k, p_part, s_tbl_indices, l_sampled, r_sampled,
                   result>>

\* lines 137, 140: the fill is over, the selection goes into the accumulator
FillDone ==
    /\ pc = "fill_loop"
    /\ UNCHANGED <<cm_call, py3, cur, other>>
    /\ ~FillLoopCond(smpl_pos_neg, y_param)
    /\ h_table' = Update(h_table, smpl_pos_neg)
    /\ row_i' = row_i + 1
    /\ pc' = "probe_row"
    /\ UNCHANGED <<table_a, table_b, size, y_param, catalog, err, warned, stop_loads,
                   index_builds, inv_index, pos, s_inv_index, b_tbl_indices, probe_rows,
                   match, k, smpl_pos_neg, p_part, s_tbl_indices, l_sampled, r_sampled,
                   result>>

\* lines 142, 202-206: _probe_index returns, A' and B' are materialized
ProbeReturn ==
    /\ pc = "probe_row"
    /\ UNCHANGED <<cm_call, py3, cur, other>>
    /\ row_i > len(probe_rows)
    /\ s_tbl_indices' = ListOf(h_table)
    /\ l_sampled' = ILoc(table_a, s_tbl_indices')
    /\ r_sampled' = ILoc(table_b, b_tbl_indices)
    /\ pc' = "copy_a"
    /\ UNCHANGED <<table_a, table_b, size, y_param, catalog, err, warned, stop_loads,
                   index_builds, inv_index, pos, s_inv_index, b_tbl_indices, probe_rows,
                   row_i, h_table, match, k, smpl_pos_neg, p_part, result>>

\* line 209: cm.copy_properties(table_a, l_sampled)
CopyA ==
    /\ pc = "copy_a"
    /\ UNCHANGED <<cm_call, py3, cur, other>>
    /\ LET r == copy_properties(catalog, "A", OutA(cur), TRUE)
       IN  IF r.raised # ""
           THEN Raise(r.raised) /\ UNCHANGED catalog
           ELSE catalog' = r.cat /\ pc' = "copy_b" /\ UNCHANGED err
    /\ UNCHANGED <<table_a, table_b, size, y_param, warned, stop_loads, index_builds,
                   inv_index, pos, s_inv_index, b_tbl_indices, probe_rows, row_i, h_table,
                   match, k, smpl_pos_neg, p_part, s_tbl_indices, l_sampled, r_sampled,
                   result>>

\* lines 210-212: cm.copy_properties(table_b, r_sampled) and the return
CopyB ==
    /\ pc = "copy_b"
    /\ UNCHANGED <<cm_call, py3, cur, other>>
    /\ LET r == copy_properties(catalog, "B", OutB(cur), TRUE)
       IN  IF r.raised # ""
           THEN Raise(r.raised) /\ UNCHANGED <<catalog, result>>
           ELSE /\ catalog' = r.cat
                /\ result' = <<l_sampled, r_sampled>>
                /\ pc' = "done"
                /\ UNCHANGED err
    /\ UNCHANGED <<table_a, table_b, size, y_param, warned, stop_loads, index_builds,
                   inv_index, pos, s_inv_index, b_tbl_indices, probe_rows, row_i, h_table,
                   match, k, smpl_pos_neg, p_part, s_tbl_indices, l_sampled, r_sampled>>

Next ==
    \/ Validate
    \/ InvIndexBegin
    \/ InvIndexRow
    \/ InvIndexReturn
    \/ DrawB
    \/ ProbeBegin
    \/ ProbeRow
    \/ MatchDraw
    \/ MatchDone
    \/ FillDraw
    \/ FillDone
    \/ ProbeReturn
    \/ CopyA
    \/ CopyB

Spec == Init /\ [][Next]_vars

\* the call under a fair random source: a draw that repeats a position already
\* selected changes nothing, so fairness on the steps that change the state says that
\* a loop waiting for a new position eventually draws one
SpecFair == Init /\ [][Next]_vars /\ WF_vars(Next)

-----------------------------------------------------------------------------
(* One probe: the call has reached line 202 with the index of table_a built *)
(* and one row of table_b drawn; _probe_index runs on that row.            *)

InitProbe ==
    /\ table_a \in { DataFrame(r) : r \in SeqsUpTo(PRowsA, PMaxLenA) \ { <<>> } }
    /\ table_b \in { DataFrame(<<r>>) : r \in PRowsB }
    /\ size = 1
    /\ y_param \in ((-1) .. PMaxY) \ {0}
    /\ catalog = [d \in {"A", "B"} |-> PropDict]
    /\ pc = "probe_begin"
    /\ cm_call = NoCall
    /\ py3 \in BOOLEAN
    /\ cur = 1
    /\ other = NoFrame
    /\ err = ""
    /\ warned = FALSE
    /\ stop_loads = 1
    /\ index_builds = 1
    /\ inv_index = InvIndexOf(table_a)
    /\ pos = len(table_a)
    /\ s_inv_index = InvIndexOf(table_a)
    /\ b_tbl_indices = <<0>>
    /\ probe_rows = NoTable
    /\ row_i = 0
    /\ h_table = {}
    /\ match = {}
    /\ k = 0
    /\ smpl_pos_neg = {}
    /\ p_part = {}
    /\ s_tbl_indices = <<>>
    /\ l_sampled = NoTable
    /\ r_sampled = NoTable
    /\ result = <<>>

NextProbe ==
    \/ ProbeBegin
    \/ ProbeRow
    \/ MatchDraw
    \/ MatchDone
    \/ FillDraw
    \/ FillDone
    \/ ProbeReturn

SpecProbe == InitProbe /\ [][NextProbe]_vars

-----------------------------------------------------------------------------
(* Two invocations of down_sample over the same table_a and table_b, in two *)
(* threads of one process: each has its own frame (arguments and locals);  *)
(* the tables, the catalog and the interpreter are shared. The interpreter *)
(* can switch threads between any two steps.                               *)

TwoLenA == 2
TwoMaxY == 2

\* the frame of the running invocation
CurFrame ==
    [size |-> size, y_param |-> y_param, pc |-> pc, err |-> err, warned |-> warned,
     stop_loads |-> stop_loads, index_builds |-> index_builds, inv_index |-> inv_index,
     pos |-> pos, s_inv_index |-> s_inv_index, b_tbl_indices |-> b_tbl_indices,
     probe_rows |-> probe_rows, row_i |-> row_i, h_table |-> h_table, match |-> match,
     k |-> k, smpl_pos_neg |-> smpl_pos_neg, p_part |-> p_part,
     s_tbl_indices |-> s_tbl_indices, l_sampled |-> l_sampled, r_sampled |-> r_sampled,
     result |-> result]

\* the frame of invocation i
Frame(i) == IF cur = i THEN CurFrame ELSE other

\* a switch that leaves the accumulator in place: h_table as one set of the module
\* rather than a local of _probe_index
SwitchSharedAccumulator ==
    /\ cur' = 3 - cur
    /\ other' = CurFrame
    /\ size' = other.size
    /\ y_param' = other.y_param
    /\ pc' = other.pc
    /\ err' = other.err
    /\ warned' = other.warned
    /\ stop_loads' = other.stop_loads
    /\ index_builds' = other.index_builds
    /\ inv_index' = other.inv_index
    /\ pos' = other.pos
    /\ s_inv_index' = other.s_inv_index
    /\ b_tbl_indices' = other.b_tbl_indices
    /\ probe_rows' = other.probe_rows
    /\ row_i' = other.row_i
    /\ h_table' = h_table
    /\ match' = other.match
    /\ k' = other.k
    /\ smpl_pos_neg' = other.smpl_pos_neg
    /\ p_part' = other.p_part
    /\ s_tbl_indices' = other.s_tbl_indices
    /\ l_sampled' = other.l_sampled
    /\ r_sampled' = other.r_sampled
    /\ result' = other.result
    /\ UNCHANGED <<table_a, table_b, catalog, py3, cm_call>>

\* the interpreter switches to the other thread: the running frame is suspended and
\* the other one resumed; every local of lines 46-212 belongs to its frame
Switch ==
    /\ cur' = 3 - cur
    /\ other' = CurFrame
    /\ size' = other.size
    /\ y_param' = other.y_param
    /\ pc' = other.pc
    /\ err' = other.err
    /\ warned' = other.warned
    /\ stop_loads' = other.stop_loads
    /\ index_builds' = other.index_builds
    /\ inv_index' = other.inv_index
    /\ pos' = other.pos
    /\ s_inv_index' = other.s_inv_index
    /\ b_tbl_indices' = other.b_tbl_indices
    /\ probe_rows' = other.probe_rows
    /\ row_i' = other.row_i
    /\ h_table' = other.h_table
    /\ match' = other.match
    /\ k' = other.k
    /\ smpl_pos_neg' = other.smpl_pos_neg
    /\ p_part' = other.p_part
    /\ s_tbl_indices' = other.s_tbl_indices
    /\ l_sampled' = other.l_sampled
    /\ r_sampled' = other.r_sampled
    /\ result' = other.result
    /\ UNCHANGED <<table_a, table_b, catalog, py3, cm_call>>

InitTwo ==
    /\ table_a \in { DataFrame(r) : r \in SeqsUpTo(RowsA, TwoLenA) \ { <<>> } }
    /\ table_b \in { DataFrame(<<r>>) : r \in RowsB }
    /\ catalog = [d \in {"A", "B"} |-> PropDict]
    /\ py3 \in BOOLEAN
    /\ cm_call = NoCall
    /\ cur = 1
    /\ \E y \in 1 .. TwoMaxY : other = EntryFrame(1, y)
    /\ size = 1
    /\ y_param \in 1 .. TwoMaxY
    /\ pc = "validate"
    /\ err = ""
    /\ warned = FALSE
    /\ stop_loads = 0
    /\ index_builds = 0
    /\ inv_index = EmptyIndex
    /\ pos = 0
    /\ s_inv_index = EmptyIndex
    /\ b_tbl_indices = <<>>
    /\ probe_rows = NoTable
    /\ row_i = 0
    /\ h_table = {}
    /\ match = {}
    /\ k = 0
    /\ smpl_pos_neg = {}
    /\ p_part = {}
    /\ s_tbl_indices = <<>>
    /\ l_sampled = NoTable
    /\ r_sampled = NoTable
    /\ result = <<>>

NextTwo ==
    \/ Next
    \/ Switch

SpecTwo == InitTwo /\ [][NextTwo]_vars

-----------------------------------------------------------------------------
(* The catalog manager called directly: a client calls set_properties and  *)
(* copy_properties on a catalog of two DataFrames, in any order.           *)

CMDfs == {"A", "B"}

CMKeys == {"key", "fk_ltable"}

CMValues == {"ID", "l_id"}

\* the property dictionaries over CMKeys
CMPropDicts == UNION { [S -> CMValues] : S \in SUBSET CMKeys }

\* the catalogs: each DataFrame has an entry or has none
CMCatalogs == UNION { [S -> CMPropDicts] : S \in SUBSET CMDfs }

InitCatalog ==
    /\ table_a = NoTable
    /\ table_b = NoTable
    /\ size = 0
    /\ y_param = 0
    /\ catalog \in CMCatalogs
    /\ pc = "idle"
    /\ cm_call = NoCall
    /\ py3 \in BOOLEAN
    /\ cur = 1
    /\ other = NoFrame
    /\ err = ""
    /\ warned = FALSE
    /\ stop_loads = 0
    /\ index_builds = 0
    /\ inv_index = EmptyIndex
    /\ pos = 0
    /\ s_inv_index = EmptyIndex
    /\ b_tbl_indices = <<>>
    /\ probe_rows = NoTable
    /\ row_i = 0
    /\ h_table = {}
    /\ match = {}
    /\ k = 0
    /\ smpl_pos_neg = {}
    /\ p_part = {}
    /\ s_tbl_indices = <<>>
    /\ l_sampled = NoTable
    /\ r_sampled = NoTable
    /\ result = <<>>

\* what a call leaves: the catalog after it and the record of the call
CallDone(fn, src, df, props, flag, r) ==
    /\ catalog' = r.cat
    /\ cm_call' = [fn |-> fn, src |-> src, df |-> df, props |-> props, flag |-> flag,
                   before |-> catalog, ret |-> r.ret, raised |-> r.raised]
    /\ UNCHANGED <<table_a, table_b, size, y_param, pc, err, warned, stop_loads,
                   index_builds, inv_index, pos, s_inv_index, b_tbl_indices, probe_rows,
                   row_i, h_table, match, k, smpl_pos_neg, p_part, s_tbl_indices,
                   l_sampled, r_sampled, result, py3, cur, other>>

\* a client calls set_properties(df, prop_dict, replace)
SetProperties ==
    /\ pc = "idle"
    /\ \E df \in CMDfs, prop_dict \in CMPropDicts, replace \in BOOLEAN :
           CallDone("set_properties", "", df, prop_dict, replace,
                    set_properties(catalog, df, prop_dict, replace))

\* a client calls copy_properties(src, tar, update)
CopyProperties ==
    /\ pc = "idle"
    /\ \E src \in CMDfs, tar \in CMDfs, update \in BOOLEAN :
           CallDone("copy_properties", src, tar, NoProps, update,
                    copy_properties(catalog, src, tar, update))

NextCatalog ==
    \/ SetProperties
    \/ CopyProperties

SpecCatalog == InitCatalog /\ [][NextCatalog]_vars

-----------------------------------------------------------------------------
(* Properties *)

\* the preconditions of down_sample: two non-empty tables
ValidTables == table_a.is_df /\ table_b.is_df /\ len(table_a) > 0 /\ len(table_b) > 0

Returned == pc = "done"

\* C1: a call with non-empty tables, size > 0 and y_param > 0 that returns gives a B'
\* of exactly min(size, len(table_b)) rows, the rows of table_b at pairwise distinct
\* positions that all lie in [0, len(table_b)).
C1_BSampleSizeAndPositions ==
    (Returned /\ ValidTables /\ size > 0 /\ y_param > 0) =>
        /\ len(result[2]) = Min(size, len(table_b))
        /\ Len(b_tbl_indices) = Min(size, len(table_b))
        /\ \A i \in DOMAIN b_tbl_indices :
               /\ b_tbl_indices[i] \in 0 .. (len(table_b) - 1)
               /\ result[2].rows[i] = table_b.rows[b_tbl_indices[i] + 1]
        /\ \A i, j \in DOMAIN b_tbl_indices : i # j => b_tbl_indices[i] # b_tbl_indices[j]

\* C1 witness: a call that returned a B' of two rows of a table_b of two different rows
C1_Witness ==
    /\ Returned /\ y_param > 0
    /\ size = 2 /\ len(table_b) = 2
    /\ table_b.rows[1] # table_b.rows[2]
    /\ result[2].rows[1] = table_b.rows[2]

\* C2: with non-empty tables and size or y_param zero or negative, down_sample fails
\* with an AssertionError at once: when the call is over it has raised AssertionError
\* before the index build started, and it has returned nothing.
C2_NonPositiveParamsRejected ==
    (ValidTables /\ (size <= 0 \/ y_param <= 0) /\ pc \in {"done", "failed"}) =>
        /\ pc = "failed"
        /\ err = "AssertionError"
        /\ index_builds = 0
        /\ result = <<>>

\* C3: with table_a or table_b empty or not a table, down_sample fails with an
\* AssertionError and neither the index build, the stop word load, the draw of B' nor
\* a catalog write has happened.
C3_BadTablesFailBeforeIndex ==
    (~table_a.is_df \/ ~table_b.is_df \/ Len(table_a.rows) = 0 \/ Len(table_b.rows) = 0) =>
        /\ pc \in {"validate", "failed"}
        /\ pc = "failed" => err = "AssertionError"
        /\ index_builds = 0
        /\ stop_loads = 0
        /\ b_tbl_indices = <<>>
        /\ DOMAIN catalog \subseteq {"A", "B"}
        /\ result = <<>>

\* C3 witness: the call with an empty table_a and a good table_b, size and y_param failed
C3_Witness ==
    /\ pc = "failed" /\ err = "AssertionError"
    /\ table_a.is_df /\ len(table_a) = 0
    /\ table_b.is_df /\ len(table_b) = 2
    /\ size = 2 /\ y_param = 2

\* C4: the copy of the metadata does not fail the call when a source table has no
\* entry in the catalog: once A' and B' are materialized the call returns them, no
\* KeyError is raised.
C4_MissingMetadataTolerated ==
    /\ err # "KeyError"
    /\ (ValidTables /\ size > 0 /\ y_param > 0) => pc # "failed"

\* C5: with size > len(table_b) and the other preconditions met, the call does not
\* raise: it warns and, once over, has returned a B' whose positions are exactly
\* {0, ..., len(table_b) - 1}.
C5_OversizedUsesWholeB ==
    (ValidTables /\ size > len(table_b) /\ y_param > 0 /\ len(table_a) >= y_param) =>
        /\ pc # "failed"
        /\ pc # "validate" => warned
        /\ Returned => SeqElems(b_tbl_indices) = 0 .. (len(table_b) - 1)

\* the index down_sample holds after line 195 is the one InvIndexOf computes
\* (what InitProbe starts from)
IndexIsInvIndexOf ==
    pc \notin {"validate", "inv_index", "inv_scan", "failed"} =>
        s_inv_index = InvIndexOf(table_a)

\* the tokens of the row being probed
CurTokens == Tokenize(probe_rows.rows[row_i], GetStopWords)

Probing == pc \in {"match_loop", "fill_loop"}

\* the random fill of the row is over: smpl_pos_neg is the row's local selection
SelectionComplete == pc = "fill_loop" /\ ~(Cardinality(smpl_pos_neg) < y_param)

\* the selection of the last probed row has just gone into the accumulator
JustUnioned == pc = "probe_row" /\ row_i > 1

\* C6: in every state of a run the positions in the accumulator lie in
\* [0, len(table_a)), the list made of the accumulator repeats no position, and the
\* union of a local selection is idempotent: after it the selection is inside the
\* accumulator and a second union changes nothing.
C6_AccumulatorInRangeDeduplicated ==
    /\ h_table \subseteq 0 .. (len(table_a) - 1)
    /\ smpl_pos_neg \subseteq 0 .. (len(table_a) - 1)
    /\ \A i, j \in DOMAIN s_tbl_indices : i # j => s_tbl_indices[i] # s_tbl_indices[j]
    /\ pc \in {"copy_a", "copy_b", "done"} =>
           /\ SeqElems(s_tbl_indices) = h_table
           /\ Len(s_tbl_indices) = Cardinality(h_table)
    /\ JustUnioned =>
           /\ smpl_pos_neg \subseteq h_table
           /\ Update(h_table, smpl_pos_neg) = h_table
    /\ SelectionComplete =>
           Update(Update(h_table, smpl_pos_neg), smpl_pos_neg) = Update(h_table, smpl_pos_neg)

\* C6 witness: the second row's selection was unioned and added a position to the
\* one the first row left
C6_Witness ==
    /\ JustUnioned /\ row_i = 3 /\ y_param = 1
    /\ Cardinality(h_table) = 2
    /\ len(table_a) = 2

\* C7: for a probed row of a call with y_param > 0 (and so len(table_a) >= y_param),
\* the local selection unioned into the accumulator has exactly y_param positions,
\* split into P, drawn from the match set, and Q, drawn by the random fill from
\* [0, len(table_a)), with P and Q disjoint.
C7_SelectionHasYParamPositions ==
    (SelectionComplete /\ y_param > 0) =>
        LET P == p_part
            Q == smpl_pos_neg \ p_part
        IN  /\ Cardinality(smpl_pos_neg) = y_param
            /\ len(table_a) >= y_param
            /\ P \subseteq match
            /\ P \subseteq smpl_pos_neg
            /\ Q \subseteq 0 .. (len(table_a) - 1)
            /\ P \cap Q = {}
            /\ Cardinality(P) + Cardinality(Q) = y_param
            /\ Cardinality(P) = Min(y_param \div 2, Cardinality(match))

\* C7 witness: a selection of three positions out of four, one from a match set of
\* two and two filled, one of these a matched row too
C7_Witness ==
    /\ SelectionComplete /\ y_param = 3
    /\ len(table_a) = 4
    /\ Cardinality(match) = 2
    /\ Cardinality(p_part) = 1
    /\ Cardinality(smpl_pos_neg \ p_part) = 2
    /\ match \subseteq smpl_pos_neg

\* C8: for a probed row whose tokens match exactly M rows of table_a, M < y_param / 2,
\* the local selection contains all M matched positions and exactly y_param - M
\* further positions, none of them matched.
C8_FewMatchesAllTaken ==
    (SelectionComplete /\ 2 * Cardinality(match) < y_param) =>
        /\ match = MatchOf(CurTokens, s_inv_index)
        /\ match \subseteq smpl_pos_neg
        /\ Cardinality(smpl_pos_neg \ match) = y_param - Cardinality(match)
        /\ Cardinality(smpl_pos_neg) = y_param

\* C8 witness: one matched row, y_param = 3, table_a of four rows
C8_Witness ==
    /\ SelectionComplete /\ y_param = 3
    /\ Cardinality(match) = 1
    /\ len(table_a) = 4

\* C9: the positions a probed row contributes to the accumulator include at least
\* min(floor(y_param / 2), |match|) positions of the row's match set, the union of
\* the posting lists of the row's tokens.
C9_AtLeastHalfFromMatch ==
    (SelectionComplete \/ JustUnioned) =>
        /\ match = UNION { SeqElems(IndexGet(s_inv_index, t)) :
                             t \in Tokenize(probe_rows.rows[IF JustUnioned THEN row_i - 1 ELSE row_i],
                                            GetStopWords) }
        /\ Cardinality(smpl_pos_neg \cap match) >= Min(y_param \div 2, Cardinality(match))
        /\ JustUnioned =>
               Cardinality(h_table \cap match) >= Min(y_param \div 2, Cardinality(match))

\* C9 witness: a row with two matched rows and y_param = 2 contributed one of them,
\* and one row that is not matched
C9_Witness ==
    /\ JustUnioned /\ y_param = 2
    /\ Cardinality(match) = 2
    /\ Cardinality(smpl_pos_neg \cap match) = 1
    /\ len(table_a) = 4

\* the subsets of S of n elements
KSubsets(S, n) == { x \in SUBSET S : Cardinality(x) = n }

\* C10: a probe whose tokens are all outside the index vocabulary behaves as a probe
\* with no token: match is empty, no position is drawn from the index, and the
\* selections it can end with are those of the empty token set, which are exactly
\* the y_param-element subsets of [0, len(table_a)).
C10_NoVocabularyLikeNoTokens ==
    (Probing /\ y_param > 0 /\ CurTokens \cap DOMAIN s_inv_index = {}) =>
        /\ match = {}
        /\ k = 0
        /\ p_part = {}
        /\ pc = "match_loop" => smpl_pos_neg = {}
        /\ SelectionComplete => smpl_pos_neg \in KSubsets(0 .. (len(table_a) - 1), y_param)
        /\ LocalSelections(CurTokens, s_inv_index, y_param, len(table_a))
             = LocalSelections({}, s_inv_index, y_param, len(table_a))
        /\ LocalSelections(CurTokens, s_inv_index, y_param, len(table_a))
             = KSubsets(0 .. (len(table_a) - 1), y_param)

\* C10 witness: a row with a token, none in the vocabulary of a non-empty index, has
\* its selection of two positions out of four
C10_Witness ==
    /\ SelectionComplete /\ y_param = 2
    /\ CurTokens # {}
    /\ DOMAIN s_inv_index # {}
    /\ CurTokens \cap DOMAIN s_inv_index = {}
    /\ len(table_a) = 4

-----------------------------------------------------------------------------
(* Properties of the whole call, continued *)

\* C11: no partial result on failure: when the call has returned, A' and B' both have
\* their metadata in the catalog and the pair is the result; when it has failed,
\* nothing is returned and neither A' nor B' has an entry in the catalog.
C11_NoPartialResult ==
    /\ pc = "done" =>
           /\ result = <<l_sampled, r_sampled>>
           /\ {"A'", "B'"} \subseteq DOMAIN catalog
    /\ pc = "failed" =>
           /\ result = <<>>
           /\ "A'" \notin DOMAIN catalog
           /\ "B'" \notin DOMAIN catalog
    /\ pc \notin {"done", "failed"} => result = <<>>

\* C16: the rows of table_b that are tokenized and probed are the rows at the drawn
\* positions, the rows B' is made of, whatever the row labels of table_b are.
C16_ProbedRowsAreBPrimeRows ==
    pc \in {"probe_row", "match_loop", "fill_loop", "copy_a", "copy_b", "done"} =>
        /\ Len(probe_rows.rows) = Len(b_tbl_indices)
        /\ \A i \in DOMAIN b_tbl_indices :
               probe_rows.rows[i] = table_b.rows[b_tbl_indices[i] + 1]
        /\ pc \in {"copy_a", "copy_b", "done"} => probe_rows.rows = r_sampled.rows

\* C14: under valid inputs with len(table_a) >= y_param and a fair random source,
\* down_sample eventually returns.
C14_EventuallyReturns ==
    (/\ table_a.is_df /\ table_b.is_df
     /\ Len(table_a.rows) > 0 /\ Len(table_b.rows) > 0
     /\ size > 0 /\ y_param > 0
     /\ Len(table_a.rows) >= y_param
     /\ pc = "validate") ~> (pc = "done")

\* C15: when len(table_a) < y_param, all other preconditions met, down_sample neither
\* returns nor raises: the random fill of the first probed row never ends, and no
\* check rejects the input beforehand.
C15_SmallTableNeverEnds ==
    (/\ table_a.is_df /\ table_b.is_df
     /\ Len(table_a.rows) > 0 /\ Len(table_b.rows) > 0
     /\ size > 0 /\ y_param > 0
     /\ Len(table_a.rows) < y_param) =>
        /\ pc \notin {"done", "failed", "copy_a", "copy_b"}
        /\ err = ""
        /\ result = <<>>
        /\ row_i <= 1
        /\ h_table = {}

\* the fill of the first row holds every position of table_a and still loops
C15_Witness ==
    /\ pc = "fill_loop"
    /\ row_i = 1
    /\ Len(table_a.rows) < y_param
    /\ smpl_pos_neg = 0 .. (Len(table_a.rows) - 1)
    /\ Cardinality(smpl_pos_neg) < y_param

\* the token set of the row of table_a at position p
RowTokens(p) == Tokenize(table_a.rows[p + 1], GetStopWords)

\* the builder has returned its index to down_sample
IndexReturned == index_builds = 1 /\ pc \notin {"validate", "inv_index", "inv_scan"}

\* C17: the index returned by the builder for a table of n > 0 rows maps a token t to
\* the list of exactly the positions p in [0, n) whose row's token set contains t, in
\* strictly increasing order with no position repeated; a token contained in no row is
\* absent from the index. Stated on the state the builder returns into (line 195).
C17_IndexIsExactPostings ==
    (IndexReturned /\ pc = "draw_b") =>
        LET n == Len(table_a.rows)
        IN  /\ n > 0
            /\ \A t \in DOMAIN s_inv_index :
                   LET lst == s_inv_index[t]
                   IN  /\ Len(lst) > 0
                       /\ \A i \in DOMAIN lst :
                              /\ lst[i] \in 0 .. (n - 1)
                              /\ t \in RowTokens(lst[i])
                       /\ \A i, j \in DOMAIN lst : i < j => lst[i] < lst[j]
            /\ \A p \in 0 .. (n - 1) : \A t \in RowTokens(p) :
                   /\ t \in DOMAIN s_inv_index
                   /\ \E i \in DOMAIN s_inv_index[t] : s_inv_index[t][i] = p

\* an index of two rows with a token of both rows and a token of one row only
C17_Witness ==
    /\ IndexReturned
    /\ pc = "draw_b"
    /\ Len(table_a.rows) = 2
    /\ \E t \in DOMAIN s_inv_index : s_inv_index[t] = <<0, 1>>
    /\ \E t \in DOMAIN s_inv_index : s_inv_index[t] = <<1>>
    /\ \E i \in DOMAIN table_a.rows[1] : Lower(table_a.rows[1][i]) \notin DOMAIN s_inv_index

\* C18: in every run the inverted index over table_a is built exactly once and is
\* complete, all rows 0..len(table_a)-1 scanned, before the first probe of any B row;
\* no probe consults a partially built index.
C18_IndexBuiltOnceBeforeProbing ==
    /\ index_builds <= 1
    /\ pc \in {"validate", "inv_index", "inv_scan"} =>
           /\ row_i = 0
           /\ probe_rows.rows = <<>>
           /\ match = {}
    /\ pc \in {"probe_begin", "probe_row", "match_loop", "fill_loop",
               "copy_a", "copy_b", "done"} =>
           /\ index_builds = 1
           /\ pos = Len(table_a.rows)
           /\ s_inv_index = inv_index

\* a probe of a row of table_b against the index of a table of two rows
C18_Witness ==
    /\ pc = "match_loop"
    /\ row_i = 1
    /\ index_builds = 1
    /\ Len(table_a.rows) = 2
    /\ pos = 2
    /\ match # {}

\* C19: probing never mutates the inverted index: after the builder returns, every
\* probe step (token lookup, match union, matched draw, random fill, accumulator
\* union) leaves the token set and every posting list of the index unchanged.
C19_ProbingLeavesIndexUnchanged ==
    [][(pc \in {"probe_begin", "probe_row", "match_loop", "fill_loop"}) =>
           (s_inv_index' = s_inv_index /\ inv_index' = inv_index)]_vars

\* a row with a token the index lacks has been probed and added to the accumulator,
\* and the index is still the one the builder returned
C19_Witness ==
    /\ pc = "probe_row"
    /\ row_i = 2
    /\ h_table # {}
    /\ \E t \in Tokenize(probe_rows.rows[1], GetStopWords) : t \notin DOMAIN s_inv_index
    /\ s_inv_index = inv_index
    /\ s_inv_index # EmptyIndex

-----------------------------------------------------------------------------
(* Properties of the catalog manager (SpecCatalog) *)

\* C12: set_properties(df, prop_dict, replace): if df already has a catalog entry and
\* replace is False it returns False and leaves the catalog unchanged; otherwise it
\* returns True, df has an entry afterwards and every key of prop_dict maps to
\* prop_dict's value in that entry.
C12_SetPropertiesContract ==
    cm_call.fn = "set_properties" =>
        /\ cm_call.raised = ""
        /\ IF cm_call.df \in DOMAIN cm_call.before /\ cm_call.flag = FALSE
           THEN cm_call.ret = FALSE /\ catalog = cm_call.before
           ELSE /\ cm_call.ret = TRUE
                /\ cm_call.df \in DOMAIN catalog
                /\ \A p \in DOMAIN cm_call.props :
                       /\ p \in DOMAIN catalog[cm_call.df]
                       /\ catalog[cm_call.df][p] = cm_call.props[p]

\* the refused call: the entry exists, replace is False, and the dictionary would have
\* changed the value of a property
C12_Witness ==
    /\ cm_call.fn = "set_properties"
    /\ cm_call.df \in DOMAIN cm_call.before
    /\ cm_call.flag = FALSE
    /\ \E p \in DOMAIN cm_call.props :
           /\ p \in DOMAIN cm_call.before[cm_call.df]
           /\ cm_call.before[cm_call.df][p] # cm_call.props[p]
    /\ cm_call.ret = FALSE

\* C13: after a successful copy_properties(src, tar) with update=True every property of
\* src is present for tar with the same value and the properties of src are unchanged;
\* when src has no catalog entry the call raises KeyError and leaves the catalog
\* unchanged, with no entry created for tar.
C13_CopyPropertiesContract ==
    cm_call.fn = "copy_properties" =>
        /\ (cm_call.flag = TRUE /\ cm_call.raised = "" /\ cm_call.ret = TRUE) =>
               /\ cm_call.df \in DOMAIN catalog
               /\ cm_call.src \in DOMAIN catalog
               /\ catalog[cm_call.src] = cm_call.before[cm_call.src]
               /\ \A p \in DOMAIN cm_call.before[cm_call.src] :
                      /\ p \in DOMAIN catalog[cm_call.df]
                      /\ catalog[cm_call.df][p] = cm_call.before[cm_call.src][p]
        /\ cm_call.src \notin DOMAIN cm_call.before =>
               /\ cm_call.raised = "KeyError"
               /\ catalog = cm_call.before

\* a successful copy with update=True onto a table that had another value for a
\* property of the source
C13_Witness ==
    /\ cm_call.fn = "copy_properties"
    /\ cm_call.flag = TRUE
    /\ cm_call.raised = ""
    /\ cm_call.ret = TRUE
    /\ cm_call.src \in DOMAIN cm_call.before
    /\ cm_call.df \in DOMAIN cm_call.before
    /\ \E p \in DOMAIN cm_call.before[cm_call.src] :
           /\ p \in DOMAIN cm_call.before[cm_call.df]
           /\ cm_call.before[cm_call.df][p] # cm_call.before[cm_call.src][p]

-----------------------------------------------------------------------------
(* Properties of one probe, continued (SpecProbe) *)

\* the number of tokens the row of table_a at position p shares with the probed row
Overlap(p) == Cardinality(RowTokens(p) \cap CurTokens)

-----------------------------------------------------------------------------
(* Properties of the whole call: stop words, sizes, independence *)

\* C21: no stop word is ever a token: no key of the built inverted index is a word of
\* the stop-word list, and the stop words of a probed row add no position to its
\* match set.
C21_NoStopWordIsToken ==
    /\ \A t \in DOMAIN inv_index : \A i \in DOMAIN StopWordsFile :
           t # RStrip(StopWordsFile[i])
    /\ \A t \in DOMAIN s_inv_index : \A i \in DOMAIN StopWordsFile :
           t # RStrip(StopWordsFile[i])
    /\ pc \in {"match_loop", "fill_loop"} =>
           \A p \in match :
               \E t \in SplitLower(probe_rows.rows[row_i]) :
                   /\ \A i \in DOMAIN StopWordsFile : t # RStrip(StopWordsFile[i])
                   /\ t \in SplitLower(table_a.rows[p + 1])

\* the steps of a run keep every position the accumulator holds
AccumulatorGrows == h_table \subseteq h_table'

\* the sizes of the returned tables, for valid inputs with len(table_a) >= y_param
ReturnedSizes ==
    (/\ pc = "done"
     /\ size > 0 /\ y_param > 0
     /\ Len(table_a.rows) >= y_param) =>
        LET b == IF size <= Len(table_b.rows) THEN size ELSE Len(table_b.rows)
            n == Len(result[1].rows)
        IN  /\ y_param <= n
            /\ n <= b * y_param
            /\ n <= Len(table_a.rows)
            /\ n > 0
            /\ Len(result[2].rows) > 0
            /\ n = Cardinality(h_table)

\* C22: the accumulator only grows during a run, no position is ever removed, and for
\* valid inputs with len(table_a) >= y_param the returned A' has
\* y_param <= |A'| <= min(min(size, len(table_b)) * y_param, len(table_a)), so A' and
\* B' are never empty.
C22_AccumulatorGrowsAndSizes == [][AccumulatorGrows]_vars /\ []ReturnedSizes

\* two rows of table_b were probed, their selections met in one position, and A' has
\* fewer rows than min(size, len(table_b)) * y_param
C22_Witness ==
    /\ pc = "done"
    /\ Len(b_tbl_indices) = 2
    /\ y_param = 1
    /\ Len(table_a.rows) = 2
    /\ Len(result[1].rows) = 1

-----------------------------------------------------------------------------
(* Properties of two interleaved invocations (SpecTwo) *)

\* a step changes the frame of invocation i only when i is the one running, and what
\* enters i's accumulator comes from i's own selection
OwnFrameOnly(i) ==
    /\ (cur # i \/ cur' # cur) => Frame(i)' = Frame(i)
    /\ Frame(i)'.h_table \subseteq Frame(i).h_table \cup Frame(i).smpl_pos_neg
    /\ Frame(i)'.smpl_pos_neg \subseteq
           Frame(i).smpl_pos_neg \cup (0 .. (Len(table_a.rows) - 1))

\* invocation i has the index of its own build and, once it has returned, the sizes
\* and the range of a call run alone
AsWhenAlone(i) ==
    LET f == Frame(i)
        n == Len(f.result[1].rows)
        b == IF f.size <= Len(table_b.rows) THEN f.size ELSE Len(table_b.rows)
    IN  /\ f.index_builds <= 1
        /\ f.pc \in {"probe_begin", "probe_row", "match_loop", "fill_loop",
                     "copy_a", "copy_b", "done"} =>
               /\ f.index_builds = 1
               /\ f.s_inv_index = f.inv_index
               /\ f.pos = Len(table_a.rows)
        /\ f.h_table \subseteq 0 .. (Len(table_a.rows) - 1)
        /\ (f.pc = "done" /\ Len(table_a.rows) >= f.y_param) =>
               /\ f.y_param <= n
               /\ n <= b * f.y_param
               /\ n <= Len(table_a.rows)
               /\ n = Cardinality(f.h_table)
               /\ Len(f.result[2].rows) = b

\* C23: two down_sample invocations interleaved arbitrarily over the same source
\* tables do not interfere through the index or the accumulator: each invocation's
\* accumulator contains only positions selected by its own probes, and each
\* invocation's result has the sizes and the range it has when run alone.
C23_InvocationsIndependent ==
    /\ [][OwnFrameOnly(1) /\ OwnFrameOnly(2)]_vars
    /\ [](AsWhenAlone(1) /\ AsWhenAlone(2))

\* both invocations are in the middle of their random fill, with different positions
\* selected so far, and the one that is suspended started first
C23_Witness ==
    /\ cur = 2
    /\ Frame(1).pc = "fill_loop"
    /\ Frame(2).pc = "fill_loop"
    /\ Frame(1).smpl_pos_neg = {0}
    /\ Frame(2).smpl_pos_neg = {1}
    /\ Frame(1).y_param = 2
    /\ Frame(2).y_param = 2

====
